---- MODULE Spec2Model ----
(***************************************************************************)
(* State-machine model of plugins/wmtouch-raw.c: the WM_TOUCH input module *)
(* of tslib.  The module subclasses a window (tslibWndProc), unpacks each  *)
(* WM_TOUCH batch into the TOUCHINPUT array i->buf of capacity             *)
(* i->max_slots, and serves the pipeline's read / read_mt calls from it.   *)
(***************************************************************************)
EXTENDS Integers, Naturals, Sequences, FiniteSets, TLC

\* ------------------------------------------------------------------ bounds
\* Largest contact count (wParam) of a WM_TOUCH message.
MaxContacts == 3
\* Largest max_slots argument the pipeline passes to read_mt.
MaxSlotsArg == 3

\* --------------------------------------------------------- platform values
WM_TOUCH == 576
TOUCHEVENTF_MOVE == 1
TOUCHEVENTF_DOWN == 2
\* The window procedure that was installed before wmtouch_mod_init.
OrigWndProc == "origWndProc"
\* The plugin's own window procedure, &tslibWndProc.
TslibWndProc == "tslibWndProc"
\* What tslib_parse_vars may return: 0, or non-zero on a configuration error.
ParseResults == {0, -1}

\* A TOUCHINPUT as the plugin reads it: x, y, dwFlags, dwTime.
TouchInput(px, py, fl, tm) == [x |-> px, y |-> py, dwFlags |-> fl, dwTime |-> tm]

\* The record memset leaves: every byte zero.
ZeroInput == TouchInput(0, 0, 0, 0)

\* Contacts the platform may report in a batch (position and activity flag);
\* the time stamp is that of the batch.
\* 4 is TOUCHEVENTF_UP, which the plugin never names.
Contacts ==
    { <<10, 20, TOUCHEVENTF_DOWN>>,
      <<30, 40, 4>>,
      <<50, 60, TOUCHEVENTF_MOVE>> }

\* Millisecond time stamps of a batch: below and above one second.
Times == {999, 1500}

\* The batches of n contacts GetTouchInputInfo can deliver.
Batches(n) ==
    { [j \in 1..n |-> TouchInput(c[j][1], c[j][2], c[j][3], tm)] :
        c \in [1..n -> Contacts], tm \in Times }

\* What the caller's sample slots hold before a read (struct ts_sample /
\* ts_sample_mt fields the plugin may write, and pressure, which it never does).
CallerSample(v) == [x |-> v, y |-> v, pressure |-> v, tv_sec |-> v, tv_usec |-> v]

CallerSamples == { CallerSample(-1), CallerSample(-2) }

\* Messages other than WM_TOUCH (15 is WM_PAINT), with their parameters.
OtherMsgs == {15}
WParams == {0, 1}
LParams == {7}
\* Results the previous window procedure may return.
PrevResults == {0, 1}
\* The HTOUCHINPUT handles carried in lParam of WM_TOUCH.
TouchHandles == {9}

VARIABLES
    buf,          \* i->buf: [ptr: "NULL" | "live", mem: the allocated records]
    max_slots,    \* i->max_slots: the capacity the plugin believes buf has
    prevWndProc,  \* i->prevWndProc
    fault,        \* the process took an access violation (NULL dereference)
    call,         \* the last entry point called, with its inputs
    ret,          \* what that call returned
    samp,         \* the caller's sample slots after that call
    forwarded,    \* the CallWindowProc call it made and its result (<<>> if none)
    closed,       \* whether it called CloseTouchInputHandle
    batch_n,      \* history: contact count of the most recent WM_TOUCH
    max_seen,     \* history: largest contact count of any WM_TOUCH so far
    alloc_failed, \* history: some malloc in tslibWndProc returned NULL
    handled_batch,    \* history: <<records>> of the most recent WM_TOUCH if it
                      \* was handled, <<>> otherwise
    released_access,  \* history: how a released i->buf was last used
                      \* ("none", "free", "write")
    phase,        \* "unloaded", "init_failed", "running" or "finalized"
    info,         \* the struct tslib_input allocation: "none", "live", "freed"
    init,         \* what wmtouch_mod_init met and returned
    wndProc,      \* the window's GWLP_WNDPROC
    userData      \* the window's GWLP_USERDATA: "none" or "i"

vars == <<buf, max_slots, prevWndProc, fault, call, ret, samp, forwarded, closed,
          batch_n, max_seen, alloc_failed, handled_batch, released_access,
          phase, info, init, wndProc, userData>>

adapter == <<buf, max_slots, prevWndProc>>
history == <<batch_n, max_seen, alloc_failed, handled_batch, released_access>>
window == <<wndProc, userData>>
module == <<phase, info, init>>

\* The window dispatches to tslibWndProc, which finds i in GWLP_USERDATA.
Hooked == wndProc = TslibWndProc /\ userData = "i" /\ info = "live"

\* The inputs of a call, in one shape for every entry point.
Call(op, uMsg, wParam, lParam, arg, samp_in, malloc_ok, unpack_ok, batch) ==
    [op |-> op, uMsg |-> uMsg, wParam |-> wParam, lParam |-> lParam,
     max_slots |-> arg, samp_in |-> samp_in,
     malloc_ok |-> malloc_ok, unpack_ok |-> unpack_ok, batch |-> batch]

\* ----------------------------------------------------------------- helpers
\* f & bit, for a single-bit mask.
BitAnd(f, bit) == IF (f \div bit) % 2 = 1 THEN bit ELSE 0

\* The test of lines 66-67 and 86-87.
IsActive_anyFlag(t) == t.dwFlags # 0
IsActive(t) ==
    BitAnd(t.dwFlags, TOUCHEVENTF_DOWN) # 0 \/ BitAnd(t.dwFlags, TOUCHEVENTF_MOVE) # 0

\* The four assignments of lines 69-72 and 89-92 on the caller's slot s.
\* dwTime * 1000 is a DWORD product; for every dwTime of Times it is below
\* 2^31, so neither the product nor its conversion to long wraps.
FillSample(s, t) ==
    [s EXCEPT !.x = t.x,
              !.y = t.y,
              !.tv_usec = t.dwTime * 1000,
              !.tv_sec = t.dwTime \div 1000]

\* Whether reading i->buf[j] (0-based) is a valid access.
Readable(j) == buf.ptr = "live" /\ j < Len(buf.mem)

\* The loop of ts_mswin_input_read_mt from index j with k samples written:
\* <<k, samp, faulted>> when it ends.
RECURSIVE ReadMtLoop(_, _, _, _)
ReadMtLoop(j, k, out, arg) ==
    IF j < arg /\ j < max_slots
    THEN IF ~Readable(j)
         THEN <<k, out, TRUE>>
         ELSE IF IsActive(buf.mem[j + 1])
              THEN ReadMtLoop(j + 1, k + 1,
                              [out EXCEPT ![k + 1] = FillSample(out[k + 1], buf.mem[j + 1])],
                              arg)
              ELSE ReadMtLoop(j + 1, k, out, arg)
    ELSE <<k, out, FALSE>>

\* The test of line 155.
NeedsGrow_offByOne(ni, cap) == ni > cap + 1
NeedsGrow_notEqual(ni, cap) == ni # cap
NeedsGrow(ni, cap) == ni > cap

\* memset(i->buf, 0, cnt * sizeof(TOUCHINPUT)) on the records mem.
ZeroFill_none(mem, cnt) == mem
ZeroFill(mem, cnt) == [j \in 1..Len(mem) |-> IF j <= cnt THEN ZeroInput ELSE mem[j]]

\* GetTouchInputInfo writing the ni records of batch into mem.
Unpack_oneShort(mem, ni, batch) ==
    [j \in 1..Len(mem) |-> IF j < ni THEN batch[j] ELSE mem[j]]
Unpack(mem, ni, batch) == [j \in 1..Len(mem) |-> IF j <= ni THEN batch[j] ELSE mem[j]]

\* CallWindowProc at line 183: its arguments, and the result res it gives.
Forward_dropParam(uMsg, wParam, lParam, res) ==
    [proc |-> prevWndProc, uMsg |-> uMsg, wParam |-> 0, lParam |-> lParam,
     result |-> res]
Forward(uMsg, wParam, lParam, res) ==
    [proc |-> prevWndProc, uMsg |-> uMsg, wParam |-> wParam, lParam |-> lParam,
     result |-> res]

\* -------------------------------------------------------------------- Init
\* The state wmtouch_mod_init leaves when it succeeds.
Init ==
    /\ buf = [ptr |-> "NULL", mem |-> <<>>]
    /\ max_slots = 0
    /\ prevWndProc = OrigWndProc
    /\ fault = FALSE
    /\ call = Call("init", 0, 0, 0, 0, <<>>, TRUE, TRUE, <<>>)
    /\ ret = 0
    /\ samp = <<>>
    /\ forwarded = <<>>
    /\ closed = FALSE
    /\ batch_n = 0
    /\ max_seen = 0
    /\ alloc_failed = FALSE
    /\ handled_batch = <<>>
    /\ released_access = "none"
    /\ phase = "running"
    /\ info = "live"
    /\ init = [malloc_ok |-> TRUE, parse_result |-> 0, ret |-> "module"]
    /\ wndProc = TslibWndProc
    /\ userData = "i"

\* ----------------------------------------------------------------- actions
\* ts_mswin_input_read(inf, samp, nr)
ts_mswin_input_read ==
    /\ phase = "running"
    /\ ~fault
    /\ \E s \in CallerSamples :
        /\ call' = Call("read", 0, 0, 0, 1, <<s>>, TRUE, TRUE, <<>>)
        /\ IF max_slots = 0
           THEN /\ ret' = 0
                /\ samp' = <<s>>
                /\ fault' = FALSE
           ELSE IF ~Readable(0)
                THEN /\ fault' = TRUE
                     /\ samp' = <<s>>
                     /\ ret' = ret
                ELSE /\ samp' = IF IsActive(buf.mem[1])
                                THEN <<FillSample(s, buf.mem[1])>>
                                ELSE <<s>>
                     /\ ret' = 1
                     /\ fault' = FALSE
    /\ forwarded' = <<>>
    /\ closed' = FALSE
    /\ UNCHANGED <<adapter, history, window, module>>

\* ts_mswin_input_read_mt(inf, samp, max_slots, nr)
ts_mswin_input_read_mt ==
    /\ phase = "running"
    /\ ~fault
    /\ \E arg \in 0..MaxSlotsArg, s \in CallerSamples :
        LET slots == [j \in 1..arg |-> s]
            r == ReadMtLoop(0, 0, slots, arg)
        IN
        /\ call' = Call("read_mt", 0, 0, 0, arg, slots, TRUE, TRUE, <<>>)
        /\ samp' = r[2]
        /\ fault' = r[3]
        /\ ret' = IF r[3] THEN ret ELSE r[1]
    /\ forwarded' = <<>>
    /\ closed' = FALSE
    /\ UNCHANGED <<adapter, history, window, module>>

\* The tail of tslibWndProc when handled is FALSE (line 183).
CallPrev(uMsg, wParam, lParam) ==
    /\ closed' = FALSE
    /\ \E res \in PrevResults :
        /\ forwarded' = <<Forward(uMsg, wParam, lParam, res)>>
        /\ ret' = res

\* tslibWndProc for a message other than WM_TOUCH.
tslibWndProc_other ==
    /\ Hooked
    /\ ~fault
    /\ \E uMsg \in OtherMsgs, wParam \in WParams, lParam \in LParams :
        /\ call' = Call("WndProc", uMsg, wParam, lParam, 0, <<>>, TRUE, TRUE, <<>>)
        /\ CallPrev(uMsg, wParam, lParam)
    /\ samp' = <<>>
    /\ UNCHANGED <<adapter, fault, history, window, module>>

\* The body of tslibWndProc for WM_TOUCH with wParam = ni and lParam = h.
\* An i->buf that was released is used here like a live one; the actions say
\* when that use happens and what else it can do.
TouchBody(ni, h) ==
        LET grow == NeedsGrow(ni, max_slots) IN
        /\ batch_n' = ni
        /\ max_seen' = IF ni > max_seen THEN ni ELSE max_seen
        /\ samp' = <<>>
        /\ prevWndProc' = prevWndProc
        /\ \/ \* lines 156-160: malloc returns NULL, break
              /\ grow
              /\ call' = Call("WndProc", WM_TOUCH, ni, h, 0, <<>>, FALSE, FALSE, <<>>)
              /\ buf' = [ptr |-> "NULL", mem |-> <<>>]
              /\ max_slots' = max_slots
              /\ alloc_failed' = TRUE
              /\ handled_batch' = <<>>
              /\ fault' = FALSE
              /\ CallPrev(WM_TOUCH, ni, h)
           \/ \* line 165: memset through a NULL i->buf
              /\ ~grow
              /\ max_slots > 0
              /\ buf.ptr = "NULL"
              /\ call' = Call("WndProc", WM_TOUCH, ni, h, 0, <<>>, TRUE, FALSE, <<>>)
              /\ fault' = TRUE
              /\ handled_batch' = <<>>
              /\ UNCHANGED <<buf, max_slots, alloc_failed, ret, forwarded, closed>>
           \/ \* lines 155-171 with a buffer that is not NULL
              /\ grow \/ max_slots = 0 \/ buf.ptr # "NULL"
              /\ LET cap == IF grow THEN ni ELSE max_slots
                     \* malloc's memory is indeterminate; line 165 overwrites all of it
                     mem0 == IF grow THEN [j \in 1..ni |-> ZeroInput] ELSE buf.mem
                     ptr == IF grow THEN "live" ELSE buf.ptr
                     zeroed == ZeroFill(mem0, cap)
                 IN
                 /\ max_slots' = cap
                 /\ alloc_failed' = alloc_failed
                 /\ fault' = FALSE
                 /\ \/ \* GetTouchInputInfo succeeds
                       /\ \E batch \in Batches(ni) :
                           /\ call' = Call("WndProc", WM_TOUCH, ni, h, 0, <<>>,
                                           TRUE, TRUE, batch)
                           /\ buf' = [ptr |-> ptr, mem |-> Unpack(zeroed, ni, batch)]
                           /\ handled_batch' = <<batch>>
                       /\ closed' = TRUE
                       /\ forwarded' = <<>>
                       /\ ret' = 0
                    \/ \* GetTouchInputInfo fails and writes nothing
                       /\ call' = Call("WndProc", WM_TOUCH, ni, h, 0, <<>>,
                                       TRUE, FALSE, <<>>)
                       /\ buf' = [ptr |-> ptr, mem |-> zeroed]
                       /\ handled_batch' = <<>>
                       /\ CallPrev(WM_TOUCH, ni, h)

\* tslibWndProc for WM_TOUCH while i->buf is NULL or live.
tslibWndProc_touch ==
    /\ Hooked
    /\ ~fault
    /\ buf.ptr # "freed"
    /\ \E ni \in 0..MaxContacts, h \in TouchHandles : TouchBody(ni, h)
    /\ UNCHANGED <<released_access, window, module>>

Next ==
    \/ ts_mswin_input_read
    \/ ts_mswin_input_read_mt
    \/ tslibWndProc_other
    \/ tslibWndProc_touch

Spec == Init /\ [][Next]_vars

\* --------------------------------------------------------------- lifecycle
\* The window before wmtouch_mod_init is called: no struct tslib_input yet
\* (the adapter fields are placeholders until the struct is allocated).
InitLife ==
    /\ buf = [ptr |-> "NULL", mem |-> <<>>]
    /\ max_slots = 0
    /\ prevWndProc = "unset"
    /\ fault = FALSE
    /\ call = Call("none", 0, 0, 0, 0, <<>>, TRUE, TRUE, <<>>)
    /\ ret = 0
    /\ samp = <<>>
    /\ forwarded = <<>>
    /\ closed = FALSE
    /\ batch_n = 0
    /\ max_seen = 0
    /\ alloc_failed = FALSE
    /\ handled_batch = <<>>
    /\ released_access = "none"
    /\ phase = "unloaded"
    /\ info = "none"
    /\ init = [malloc_ok |-> TRUE, parse_result |-> 0, ret |-> "none"]
    /\ wndProc = OrigWndProc
    /\ userData = "none"

\* The test of line 214 on the result of tslib_parse_vars.
InitFails_never(parse_result) == FALSE
InitFails(parse_result) == parse_result # 0

\* wmtouch_mod_init(dev, params)
wmtouch_mod_init ==
    /\ phase = "unloaded"
    /\ \E malloc_ok \in BOOLEAN, parse_result \in ParseResults :
        /\ call' = Call("mod_init", 0, 0, 0, 0, <<>>, malloc_ok, TRUE, <<>>)
        /\ IF ~malloc_ok
           THEN \* lines 192-194
                /\ init' = [malloc_ok |-> FALSE, parse_result |-> 0, ret |-> "NULL"]
                /\ phase' = "init_failed"
                /\ UNCHANGED <<adapter, info, window>>
           ELSE IF InitFails(parse_result)
           THEN \* lines 214-217: free(i), return NULL
                /\ init' = [malloc_ok |-> TRUE, parse_result |-> parse_result,
                            ret |-> "NULL"]
                /\ phase' = "init_failed"
                /\ info' = "freed"
                /\ UNCHANGED <<adapter, window>>
           ELSE \* lines 196-222
                /\ init' = [malloc_ok |-> TRUE, parse_result |-> parse_result,
                            ret |-> "module"]
                /\ phase' = "running"
                /\ info' = "live"
                /\ buf' = [ptr |-> "NULL", mem |-> <<>>]
                /\ max_slots' = 0
                /\ userData' = "i"
                /\ prevWndProc' = wndProc
                /\ wndProc' = TslibWndProc
    /\ UNCHANGED <<fault, ret, samp, forwarded, closed, history>>

\* ts_mswin_input_fini(inf): free(i->buf), nothing else.
ts_mswin_input_fini ==
    /\ phase = "running"
    /\ ~fault
    /\ call' = Call("fini", 0, 0, 0, 0, <<>>, TRUE, TRUE, <<>>)
    /\ buf' = IF buf.ptr = "live" THEN [buf EXCEPT !.ptr = "freed"] ELSE buf
    /\ ret' = 0
    /\ phase' = "finalized"
    /\ samp' = <<>>
    /\ forwarded' = <<>>
    /\ closed' = FALSE
    /\ UNCHANGED <<max_slots, prevWndProc, fault, history, info, init, window>>

\* tslibWndProc for WM_TOUCH while i->buf points to released memory: line 156
\* frees it again, or lines 165 and 169 write into it.  That is undefined:
\* the heap may take it silently or the process may fault.
tslibWndProc_touch_released ==
    /\ Hooked
    /\ ~fault
    /\ buf.ptr = "freed"
    /\ \E ni \in 0..MaxContacts, h \in TouchHandles :
        /\ released_access' = IF NeedsGrow(ni, max_slots) THEN "free" ELSE "write"
        /\ \/ TouchBody(ni, h)
           \/ /\ fault' = TRUE
              /\ call' = Call("WndProc", WM_TOUCH, ni, h, 0, <<>>, TRUE, FALSE, <<>>)
              /\ batch_n' = ni
              /\ max_seen' = IF ni > max_seen THEN ni ELSE max_seen
              /\ handled_batch' = <<>>
              /\ samp' = <<>>
              /\ UNCHANGED <<adapter, alloc_failed, ret, forwarded, closed>>
    /\ UNCHANGED <<window, module>>

NextLife ==
    \/ wmtouch_mod_init
    \/ ts_mswin_input_read
    \/ ts_mswin_input_read_mt
    \/ tslibWndProc_other
    \/ tslibWndProc_touch
    \/ ts_mswin_input_fini
    \/ tslibWndProc_touch_released

SpecLife == InitLife /\ [][NextLife]_vars

\* ------------------------------------------------------------------ claims
\* Stated on their own terms, not through the operators that model the code.

Min(a, b) == IF a < b THEN a ELSE b

\* A record is down or moving: bit 0 (move) or bit 1 (down) of its flags is set.
DownOrMove(t) == t.dwFlags % 4 # 0

\* The first lim records of the buffer (none when the buffer is NULL).
Scanned(lim) == SubSeq(buf.mem, 1, Min(lim, Len(buf.mem)))

\* The down-or-move records among them, in buffer order.
Emitted(lim) == SelectSeq(Scanned(lim), DownOrMove)

TouchStep == call'.op = "WndProc" /\ call'.uMsg = WM_TOUCH

\* C1: a WM_TOUCH whose count exceeds the capacity and whose allocation fails
\* leaves the capacity and the buffer exactly as they were before the message
\* (so that a following read serves the last successful batch).
C1_FailedGrowthKeepsBuffer ==
    [][(TouchStep /\ call'.wParam > max_slots /\ ~call'.malloc_ok)
        => (max_slots' = max_slots /\ buf' = buf)]_vars

\* C2: every sample a read emits from a record with time stamp ms has
\* seconds = ms / 1000 and microseconds = (ms mod 1000) * 1000 < 1000000.
C2_TimestampSplit ==
    (call.op \in {"read", "read_mt"} /\ ~fault) =>
        LET e == IF call.op = "read" THEN Emitted(1)
                 ELSE Emitted(Min(call.max_slots, max_slots))
        IN \A s \in 1..Min(Len(e), ret) :
            /\ samp[s].tv_sec = e[s].dwTime \div 1000
            /\ samp[s].tv_usec = (e[s].dwTime % 1000) * 1000
            /\ samp[s].tv_usec < 1000000

\* C3: in every buffer state and for every max, read_mt returns k, the number
\* of down-or-move records below min(max, capacity), and slots 0..k-1 hold
\* exactly their (x, y) in buffer order; no other slot is written.
C3_ReadMtFiltersInOrder ==
    call.op = "read_mt" =>
        LET e == Emitted(Min(call.max_slots, max_slots)) IN
        /\ ~fault
        /\ ret = Len(e)
        /\ \A s \in 1..Len(samp) :
            IF s <= Len(e)
            THEN samp[s].x = e[s].x /\ samp[s].y = e[s].y
            ELSE samp[s] = call.samp_in[s]

\* C4: read_mt never writes more samples than min(max, n), n the contact count
\* of the most recent WM_TOUCH, also when the capacity is larger than n.
C4_ReadMtBoundedByBatch ==
    call.op = "read_mt" =>
        LET lim == Min(call.max_slots, batch_n) IN
        /\ ~fault => ret <= lim
        /\ \A s \in 1..Len(samp) : s > lim => samp[s] = call.samp_in[s]

C4_Witness ==
    /\ call.op = "read_mt"
    /\ ~fault
    /\ batch_n >= 1
    /\ batch_n < max_slots
    /\ batch_n < call.max_slots
    /\ ret = batch_n

\* C5: the capacity never decreases from one state to the next.
C5_CapacityMonotone == [][max_slots' >= max_slots]_vars

C5_Witness ==
    /\ call.op = "WndProc"
    /\ call.uMsg = WM_TOUCH
    /\ call.unpack_ok
    /\ call.wParam < max_slots

\* C6: while no allocation has failed, the capacity is the largest contact
\* count of any WM_TOUCH delivered so far (0 before the first).
C6_CapacityIsMaxSeen == ~alloc_failed => max_slots = max_seen

C6_Witness ==
    /\ ~alloc_failed
    /\ batch_n >= 1
    /\ batch_n < max_seen
    /\ max_slots = max_seen

\* C7: read_mt changes no adapter state and always returns; called again with
\* the same arguments and no message in between it returns the same count
\* and the same samples.
C7_ReadMtIdempotent ==
    [][call'.op = "read_mt" =>
        /\ ~fault'
        /\ adapter' = adapter
        /\ (call.op = "read_mt" /\ call = call') => (ret' = ret /\ samp' = samp)]_vars

\* C8: a message other than WM_TOUCH goes to the handler installed before the
\* adapter with its id and parameters unmodified, that handler's result is
\* returned, and the buffer, the capacity and the saved handler are unchanged.
C8_OtherMessagesForwarded ==
    [][(call'.op = "WndProc" /\ call'.uMsg # WM_TOUCH) =>
        /\ forwarded' = << [proc |-> OrigWndProc, uMsg |-> call'.uMsg,
                            wParam |-> call'.wParam, lParam |-> call'.lParam,
                            result |-> ret'] >>
        /\ ~closed'
        /\ adapter' = adapter]_vars

C8_Witness ==
    /\ call.op = "WndProc"
    /\ call.uMsg # WM_TOUCH
    /\ call.wParam # 0
    /\ ret # 0
    /\ max_slots > 0
    /\ buf.ptr = "live"

\* C9: read returns 0 exactly when the capacity is zero and otherwise 1; when
\* it returns 1 and the first record is down or moving, the sample's x and y
\* are that record's.
C9_ReadReturnsZeroOrOne ==
    call.op = "read" =>
        /\ ~fault
        /\ ret \in {0, 1}
        /\ ret = 0 <=> max_slots = 0
        /\ (ret = 1 /\ Len(Emitted(1)) = 1) =>
            (samp[1].x = buf.mem[1].x /\ samp[1].y = buf.mem[1].y)

\* C10: with a non-zero capacity and a first record that is neither down nor
\* moving, read returns 1 and leaves every field of the caller's sample as
\* the caller passed it, whatever the later records are.
C10_ReadLeavesSampleStale ==
    (/\ call.op = "read"
     /\ max_slots # 0
     /\ Len(Scanned(1)) = 1
     /\ ~DownOrMove(buf.mem[1])) =>
        (~fault /\ ret = 1 /\ samp = call.samp_in)

C10_Witness ==
    /\ call.op = "read"
    /\ max_slots >= 2
    /\ Len(buf.mem) >= 2
    /\ buf.mem[1].dwFlags = 4
    /\ DownOrMove(buf.mem[2])
    /\ ret = 1
    /\ samp = call.samp_in

\* C11: when the finalization entry point has returned, the contact buffer is
\* released and the window's message handler is again the one that was
\* installed before initialization.
C11_FiniRestoresHandler ==
    call.op = "fini" => (buf.ptr # "live" /\ wndProc = OrigWndProc)

\* C12: when option parsing reports a configuration error, initialization
\* returns NULL, the struct it allocated is released and the window's handler
\* and user data are as they were; the interceptor is installed, with the
\* previous handler saved, only when initialization succeeds.
C12_InitFailureInstallsNothing ==
    /\ (phase # "unloaded" /\ init.malloc_ok /\ init.parse_result # 0) =>
        /\ phase = "init_failed"
        /\ init.ret = "NULL"
        /\ info = "freed"
        /\ wndProc = OrigWndProc
        /\ userData = "none"
    /\ (wndProc # OrigWndProc \/ userData # "none") =>
        /\ init.ret = "module"
        /\ init.parse_result = 0
        /\ wndProc = "tslibWndProc"
        /\ userData = "i"
        /\ prevWndProc = OrigWndProc

C12_Witness ==
    /\ phase = "init_failed"
    /\ init.malloc_ok
    /\ init.parse_result # 0
    /\ call.op = "mod_init"

\* C13: every message delivered to the interceptor is either handled (0 is
\* returned, the touch handle is closed, the previous handler is not called)
\* or forwarded to the previous handler, never both and never neither; it is
\* handled iff it is a WM_TOUCH whose allocation and unpacking succeeded, and
\* the handle is closed only then.
C13_HandledXorForwarded ==
    [][call'.op = "WndProc" =>
        LET handled == closed' /\ ret' = 0 /\ forwarded' = <<>>
            passed == /\ ~closed'
                      /\ Len(forwarded') = 1
                      /\ forwarded'[1].proc = OrigWndProc
                      /\ forwarded'[1].result = ret'
        IN /\ ~fault'
           /\ handled \/ passed
           /\ ~(handled /\ passed)
           /\ handled <=> (call'.uMsg = WM_TOUCH /\ call'.malloc_ok /\ call'.unpack_ok)
    ]_vars

\* The last call was a WM_TOUCH that got as far as GetTouchInputInfo, which failed.
UnpackFailed ==
    /\ call.op = "WndProc"
    /\ call.uMsg = WM_TOUCH
    /\ call.malloc_ok
    /\ ~call.unpack_ok
    /\ ~fault

\* C14: a WM_TOUCH whose unpacking fails goes to the previous handler, its
\* handle is not closed, and the next read_mt returns 0 samples and writes
\* none, whether or not the capacity grew for that batch.
C14_UnpackFailureGivesNoSamples ==
    [][UnpackFailed =>
        /\ ~closed
        /\ Len(forwarded) = 1
        /\ forwarded[1].proc = OrigWndProc
        /\ forwarded[1].uMsg = WM_TOUCH
        /\ forwarded[1].wParam = call.wParam
        /\ ret = forwarded[1].result
        /\ call'.op = "read_mt" => (~fault' /\ ret' = 0 /\ samp' = call'.samp_in)
    ]_vars

\* A read_mt that asked for samples after an unpack failure for which the
\* capacity had grown.
C14_Witness ==
    /\ call.op = "read_mt"
    /\ call.max_slots >= 1
    /\ ~fault
    /\ ~alloc_failed
    /\ handled_batch = <<>>
    /\ batch_n >= 1
    /\ max_slots = batch_n
    /\ ret = 0

IsZeroRecord(t) == t.x = 0 /\ t.y = 0 /\ t.dwFlags = 0 /\ t.dwTime = 0

\* C15: whenever a read can run after a handled batch of n records, the buffer
\* holds exactly that batch below n and zero records from n to the capacity:
\* no record of an earlier batch is left.
C15_BatchOverwritesBuffer ==
    (handled_batch # <<>> /\ ~fault) =>
        LET b == handled_batch[1] IN
        /\ max_slots > 0 => buf.ptr = "live"
        /\ Len(buf.mem) = max_slots
        /\ Len(b) <= max_slots
        /\ \A j \in 1..max_slots :
            IF j <= Len(b) THEN buf.mem[j] = b[j] ELSE IsZeroRecord(buf.mem[j])

C15_Witness ==
    /\ call.op \in {"read", "read_mt"}
    /\ handled_batch # <<>>
    /\ Len(handled_batch[1]) >= 1
    /\ Len(handled_batch[1]) < max_slots

\* C16: between initialization and finalization a capacity above zero implies
\* a live buffer of at least capacity records.
C16_CapacityImpliesLiveBuffer ==
    max_slots > 0 => (buf.ptr = "live" /\ Len(buf.mem) >= max_slots)

\* C17: once finalization has released the buffer, no later step frees it
\* again or writes into it.
C17_NoUseAfterRelease ==
    phase = "finalized" => released_access = "none"

====
